---- MODULE Spec2Model ----
(***************************************************************************)
(* core::tensor<T, Order> of src/include/core/core.hpp as a state machine. *)
(*                                                                         *)
(* The state is a small set of named tensor objects (obj), the heap of     *)
(* element buffers they point into (heap, nextAddr), and the outcome of    *)
(* the last operation (res).  T is int; elements are 0..MaxVal.  Of a      *)
(* buffer of Untracked elements or more only the length is kept.           *)
(***************************************************************************)
EXTENDS Integers, Sequences, FiniteSets, TLC

VARIABLES obj, heap, nextAddr, res

vars == <<obj, heap, nextAddr, res>>

(***************************************************************************)
(* Bounds of the model.                                                    *)
(***************************************************************************)
MaxAllocs == 3
MaxCells == 6
MaxExtent == 2
MaxVal == 1
MaxLen == 2
\* Buffers of at least this many elements have their contents left out of the
\* state: only their length is kept.
Untracked == 1024

Slots == {1, 2, 3}
Addrs == 1..MaxAllocs
Val == 0..MaxVal
Orders == {1, 2}
ExtVal == 0..MaxExtent

\* INT_MAX: std::reduce(..., 1, ...) accumulates in the type of its init, int.
IntMax == 2147483647

\* nullptr
NULL == 0

\* No object lives in the slot.
NoObj == [m_data |-> NULL, m_extents |-> <<>>, m_size |-> 0, m_strides |-> <<>>,
          ctor |-> "none"]

Live(s) == obj[s].ctor # "none"
Order(t) == Len(t.m_extents)

(***************************************************************************)
(* Sequences.                                                              *)
(***************************************************************************)
SeqsOf(S, n) == [1..n -> S]
SeqsUpTo(S, n) == UNION {SeqsOf(S, k) : k \in 0..n}
Zeros(n) == [j \in 1..n |-> 0]

RECURSIVE Product(_)
Product(s) == IF s = <<>> THEN 1 ELSE Head(s) * Product(Tail(s))

\* std::multiplies<size_type>()(acc, x) converted back to int, the type of
\* the accumulator: the low 32 bits of the product, read as a signed int.
\* Computed on 16-bit halves, so that no intermediate value needs more than
\* 32 bits.  x is an extent below 2^31.
Half == 65536
MulInt(acc, x) ==
  LET al == acc % Half
      ah == acc \div Half
      xl == x % Half
      xh == x \div Half
      u == (al \div 256) * xl
      v == (al % 256) * xl
      w == ((u % 256) * 256) + v
      lo == w % Half
      carry == (u \div 256) + (w \div Half)
      mid == (((ah * xl) % Half) + ((al * xh) % Half)) % Half
      hi == (mid + carry) % Half
  IN IF hi >= (Half \div 2) THEN ((hi - Half) * Half) + lo ELSE (hi * Half) + lo

\* std::reduce(first, last, 1, std::multiplies<...>()): the accumulator is an
\* int, so every partial product is converted back to int.
RECURSIVE ReduceFrom(_, _)
ReduceFrom(acc, s) ==
  IF s = <<>> THEN acc ELSE ReduceFrom(MulInt(acc, Head(s)), Tail(s))
ReduceInt(s) == ReduceFrom(1, s)

(***************************************************************************)
(* Strides.  prod is a float (IEEE binary32): 0, or m * 2^e with a 24-bit  *)
(* significand 2^23 <= m < 2^24, or +inf or NaN.  Conversions to float and *)
(* divisions round to nearest, ties to even.  static_cast<size_type>       *)
(* truncates a finite value; of inf or NaN it is undefined, and yields a   *)
(* value that depends on the build.                                        *)
(***************************************************************************)
RECURSIVE Pow2(_)
Pow2(k) == IF k = 0 THEN 1 ELSE 2 * Pow2(k - 1)

\* The number of bits of n > 0.
RECURSIVE BitLen(_)
BitLen(n) == IF n = 0 THEN 0 ELSE 1 + BitLen(n \div 2)

Fin(m, e) == [k |-> "fin", m |-> m, e |-> e]

\* q (one bit more than the significand) rounded to 24 bits, ties to even;
\* sticky says that bits below q were lost.  The value is the result * 2^e.
RoundEven(q, sticky, e) ==
  LET m == q \div 2
      up == q % 2 = 1 /\ (sticky \/ m % 2 = 1)
      m1 == IF up THEN m + 1 ELSE m
  IN IF m1 = Pow2(24) THEN Fin(Pow2(23), e + 1) ELSE Fin(m1, e)

\* static_cast<float>(n), and the conversion of the divisor m_extents[idx].
FloatOf(n) ==
  IF n = 0 THEN Fin(0, 0)
  ELSE LET b == BitLen(n)
       IN IF b <= 24 THEN Fin(n * Pow2(24 - b), b - 24)
          ELSE RoundEven(n \div Pow2(b - 25), n % Pow2(b - 25) # 0, b - 24)

\* floor(a * 2^k / b) and whether a remainder is left, bit by bit.
RECURSIVE LongDiv(_, _, _, _)
LongDiv(q, r, b, k) ==
  IF k = 0 THEN [q |-> q, sticky |-> r # 0]
  ELSE IF 2 * r >= b THEN LongDiv(2 * q + 1, 2 * r - b, b, k - 1)
  ELSE LongDiv(2 * q, 2 * r, b, k - 1)

\* prod /= m_extents[idx], the extent converted to float.
FloatDiv(p, ext) ==
  LET d == FloatOf(ext)
  IN IF p.k # "fin" THEN p    \* inf / x = inf and NaN / x = NaN, for every x >= 0
     ELSE IF d.m = 0
       THEN (IF p.m = 0 THEN [k |-> "nan", m |-> 0, e |-> 0]
                        ELSE [k |-> "inf", m |-> 0, e |-> 0])
     ELSE IF p.m = 0 THEN p
     ELSE LET s == IF p.m >= d.m THEN 24 ELSE 25
              D == LongDiv(p.m \div d.m, p.m % d.m, d.m, s)
          IN RoundEven(D.q, D.sticky, p.e - d.e - s + 1)

\* The stride static_cast<size_type> leaves for inf or NaN is kept as Indet; a
\* use of it reads one of UBStrides (0, 1, or a value beyond every buffer).
Indet == -1
HugeStride == MaxCells + 1
UBStrides == {0, 1, HugeStride}
ToSizeT(p) ==
  IF p.k # "fin" THEN Indet
  ELSE IF p.e >= 0 THEN p.m * Pow2(p.e)
  ELSE IF -p.e > 24 THEN 0
  ELSE p.m \div Pow2(-p.e)

RECURSIVE ProdAfter(_, _, _)
ProdAfter(p, ext, j) ==
  IF j = 0 THEN p ELSE FloatDiv(ProdAfter(p, ext, j - 1), ext[j])

\* The stride loop of the constructors.
StridesOf(size, ext) ==
  [j \in 1..Len(ext) |-> ToSizeT(ProdAfter(FloatOf(size), ext, j))]

(***************************************************************************)
(* The heap.  Addresses are handed out in order and never reused.          *)
(***************************************************************************)
\* A buffer: its state, its length, and its elements (none kept when the
\* contents are left out of the state).
NoBuf == [st |-> "unalloc", len |-> 0, cells |-> <<>>]
CellsUsed == LET RECURSIVE Sum(_)
                 Sum(a) == IF a = 0 THEN 0 ELSE Len(heap[a].cells) + Sum(a - 1)
             IN Sum(MaxAllocs)
CanAlloc(n) == nextAddr <= MaxAllocs /\ (n >= Untracked \/ CellsUsed + n <= MaxCells)

\* Elements an object reads through its buffer pointer.
HasBuf(t) == t.m_data # NULL
Cells(t) == IF HasBuf(t) THEN heap[t.m_data].cells ELSE <<>>
\* The contents of t's buffer are part of the state.
Tracked(t) == HasBuf(t) => Len(heap[t.m_data].cells) = heap[t.m_data].len

(***************************************************************************)
(* The outcome of the last operation.  kind is "ok", the exception thrown  *)
(* ("out_of_range", "domain_error", "runtime_error") or "segv": the process*)
(* was killed at an access through a null pointer or outside every         *)
(* allocation.  ub marks an outcome reached through an access outside the  *)
(* buffer that did not kill the process.  pa and pidxs are set by get on   *)
(* the tensor the previous get returned: the source and the prefix of that *)
(* previous get.  off is the flat offset get read at (the start of the     *)
(* slice it copied), poff that of the previous get.  A scalar operation    *)
(* applied to the tensor the previous scalar operation returned sets pa,   *)
(* pop and psc: the operand, the operation and the scalar of the previous  *)
(* one.                                                                    *)
(***************************************************************************)
R(op, kind) ==
  [op |-> op, kind |-> kind, a |-> 0, b |-> 0, dst |-> 0, idxs |-> <<>>,
   val |-> 0, bval |-> FALSE, sc |-> 0, ub |-> FALSE, off |-> 0,
   pa |-> 0, pidxs |-> <<>>, poff |-> 0, pop |-> "", psc |-> 0]

Running == res.kind # "segv"

\* new T[n]: the next address, holding cells.
Alloc(cells) ==
  [heap EXCEPT ![nextAddr] = [st |-> "live", len |-> Len(cells), cells |-> cells]]
\* new T[n], the contents left out of the state.
AllocOpaque(n) == [heap EXCEPT ![nextAddr] = [st |-> "live", len |-> n, cells |-> <<>>]]
\* delete[] p (of nullptr: nothing).
Free(h, p) ==
  IF p = NULL THEN h ELSE [h EXCEPT ![p] = [st |-> "freed", len |-> 0, cells |-> <<>>]]

\* A buffer no object points to any more and that was never released stays
\* allocated for good; its contents can no longer be read and are dropped.
Leak(h, o) ==
  [a \in Addrs |->
     IF h[a].st = "live" /\ \A s \in Slots : o[s].m_data # a
       THEN [st |-> "leaked", len |-> 0, cells |-> <<>>]
       ELSE h[a]]

Init ==
  /\ obj = [s \in Slots |-> NoObj]
  /\ heap = [a \in Addrs |-> NoBuf]
  /\ nextAddr = 1
  /\ res = R("init", "ok")

(***************************************************************************)
(* Constructors.                                                           *)
(***************************************************************************)
\* tensor(): core.hpp:68
Empty(d, ord) ==
  /\ Running /\ ~Live(d)
  /\ obj' = [obj EXCEPT ![d] = [m_data |-> NULL, m_extents |-> Zeros(ord), m_size |-> 0,
                                m_strides |-> Zeros(ord), ctor |-> "empty"]]
  /\ res' = [R("empty", "ok") EXCEPT !.dst = d]
  /\ UNCHANGED <<heap, nextAddr>>

\* tensor(std::initializer_list<T>): core.hpp:74-81.  m_extents = {m_size} and
\* m_strides = {1} value-initialise the remaining Order - 1 entries to 0.
FlatList(d, ord, values) ==
  /\ Running /\ ~Live(d) /\ CanAlloc(Len(values))
  /\ obj' = [obj EXCEPT ![d] =
               [m_data |-> nextAddr,
                m_extents |-> [j \in 1..ord |-> IF j = 1 THEN Len(values) ELSE 0],
                m_size |-> Len(values),
                m_strides |-> [j \in 1..ord |-> IF j = 1 THEN 1 ELSE 0],
                ctor |-> "flat"]]
  /\ heap' = Alloc(values)
  /\ nextAddr' = nextAddr + 1
  /\ res' = [R("flat", "ok") EXCEPT !.dst = d]

\* tensor(const array<Order> extents): core.hpp:121-131.  new T[m_size] leaves
\* the elements uninitialised: any contents.  A negative int converted to
\* size_type is a size no allocation has: new T[m_size] throws std::bad_alloc
\* (or std::bad_array_new_length, derived from it) and nothing is constructed.
FromExtents(d, ext) ==
  /\ Running /\ ~Live(d)
  /\ IF ReduceInt(ext) < 0
       THEN /\ res' = [R("extents", "bad_alloc") EXCEPT !.dst = d, !.idxs = ext]
            /\ UNCHANGED <<obj, heap, nextAddr>>
       ELSE /\ CanAlloc(ReduceInt(ext))
            /\ obj' = [obj EXCEPT ![d] = [m_data |-> nextAddr, m_extents |-> ext,
                                          m_size |-> ReduceInt(ext),
                                          m_strides |-> StridesOf(ReduceInt(ext), ext),
                                          ctor |-> "extents"]]
            /\ IF ReduceInt(ext) >= Untracked
                 THEN heap' = AllocOpaque(ReduceInt(ext))
                 ELSE \E g \in SeqsOf(Val, ReduceInt(ext)) : heap' = Alloc(g)
            /\ nextAddr' = nextAddr + 1
            /\ res' = [R("extents", "ok") EXCEPT !.dst = d, !.idxs = ext]

(***************************************************************************)
(* Raw element access m_data[i] (no check) and operator[] (core.hpp:207).  *)
(***************************************************************************)
\* The sequences of length n whose p-th entry is drawn from F[p].
RECURSIVE Choices(_, _)
Choices(F, n) ==
  IF n = 0 THEN {<<>>}
  ELSE {Append(w, x) : w \in Choices(F, n - 1), x \in F[n]}

\* m_data + i lies inside the live allocation m_data points to.
InBuf(t, i) ==
  /\ HasBuf(t)
  /\ heap[t.m_data].st = "live"
  /\ i < heap[t.m_data].len

\* What the raw read m_data[i] can yield when it does not kill the process:
\* the stored element inside the buffer, any value outside it or when the
\* contents are not kept.
CellVals(t, i) ==
  IF InBuf(t, i) /\ i < Len(heap[t.m_data].cells) THEN {heap[t.m_data].cells[i + 1]} ELSE Val

\* The same for m_data[from], ..., m_data[from + n - 1].  Through nullptr
\* nothing is read.
RawVals(t, from, n) ==
  IF n = 0 THEN {<<>>}
  ELSE IF ~HasBuf(t) THEN {}
  ELSE Choices([p \in 1..n |-> CellVals(t, from + p - 1)], n)
\* Some of these reads is outside the buffer (undefined behaviour).
RawUB(t, from, n) == n > 0 /\ ~InBuf(t, from + n - 1)

\* operator[]: if (idx > m_size - 1) throw.  m_size - 1 is computed in
\* size_type: for m_size = 0 it is the largest size_type value, which no idx
\* exceeds.
SizeMinusOne(t) == IF t.m_size = 0 THEN IntMax ELSE t.m_size - 1
IndexThrows(t, idx) == idx > SizeMinusOne(t)

(***************************************************************************)
(* Copy, move, destruction.                                                *)
(***************************************************************************)
\* The members a copy takes from rhs, with its own new buffer.
CopyOf(rhs, p) ==
  [m_data |-> p, m_extents |-> rhs.m_extents, m_size |-> rhs.m_size,
   m_strides |-> rhs.m_strides, ctor |-> rhs.ctor]

\* The members a move takes from rhs: rhs's buffer itself.
MoveOf(rhs) ==
  [m_data |-> rhs.m_data, m_extents |-> rhs.m_extents, m_size |-> rhs.m_size,
   m_strides |-> rhs.m_strides, ctor |-> rhs.ctor]

\* A faulty move: rhs keeps its pointer.
MovedFromKeepsPointer(rhs) == rhs

\* rhs after a move from it: only the pointer is reset.
MovedFrom(rhs) == [rhs EXCEPT !.m_data = NULL]

\* new T[rhs.m_size]; std::copy(rhs.m_data, rhs.m_data + rhs.m_size, m_data)
\* and the member copies, into object d.  Shared by the copy constructor and
\* the copy assignment.
CopyInto(d, s, op) ==
  /\ CanAlloc(obj[s].m_size)
  /\ nextAddr' = nextAddr + 1
  /\ \/ /\ RawUB(obj[s], 0, obj[s].m_size)
        /\ res' = [R(op, "segv") EXCEPT !.a = s, !.dst = d]
        /\ heap' = heap
        /\ obj' = obj
     \/ \E w \in RawVals(obj[s], 0, obj[s].m_size) :
          /\ obj' = [obj EXCEPT ![d] = CopyOf(obj[s], nextAddr)]
          /\ heap' = Leak(Alloc(w), obj')
          /\ res' = [R(op, "ok") EXCEPT !.a = s, !.dst = d,
                                        !.ub = RawUB(obj[s], 0, obj[s].m_size)]

\* tensor(const tensor& rhs): core.hpp:137-144
CopyCtor(d, s) ==
  /\ Running /\ Live(s) /\ ~Live(d)
  /\ CopyInto(d, s, "copy")

\* operator=(const tensor& rhs): core.hpp:150-160.  The buffer this held
\* before is not released.
CopyAssign(d, s) ==
  /\ Running /\ Live(s) /\ Live(d) /\ Order(obj[d]) = Order(obj[s])
  /\ IF d # s
       THEN CopyInto(d, s, "copy_assign")
       ELSE /\ res' = [R("copy_assign", "ok") EXCEPT !.a = s, !.dst = d]
            /\ UNCHANGED <<obj, heap, nextAddr>>

\* tensor(tensor&& rhs): core.hpp:166-172
MoveCtor(d, s) ==
  /\ Running /\ Live(s) /\ ~Live(d)
  /\ obj' = [obj EXCEPT ![d] = MoveOf(obj[s]), ![s] = MovedFrom(obj[s])]
  /\ res' = [R("move", "ok") EXCEPT !.a = s, !.dst = d]
  /\ UNCHANGED <<heap, nextAddr>>

\* operator=(const tensor&& rhs): core.hpp:178-188, as written (rhs.m_data is
\* assigned although rhs is const).  The buffer this held before is not
\* released.
MoveAssign(d, s) ==
  /\ Running /\ Live(s) /\ Live(d) /\ Order(obj[d]) = Order(obj[s])
  /\ obj' = IF d # s
              THEN [obj EXCEPT ![d] = MoveOf(obj[s]), ![s] = MovedFrom(obj[s])]
              ELSE obj
  /\ res' = [R("move_assign", "ok") EXCEPT !.a = s, !.dst = d]
  /\ heap' = Leak(heap, obj')
  /\ UNCHANGED nextAddr

\* ~tensor(): core.hpp:194-197.  delete[] of a buffer already released kills
\* the process.
Destroy(s) ==
  /\ Running /\ Live(s)
  /\ IF HasBuf(obj[s]) /\ heap[obj[s].m_data].st # "live"
       THEN /\ res' = [R("destroy", "segv") EXCEPT !.a = s]
            /\ UNCHANGED <<obj, heap>>
       ELSE /\ heap' = Free(heap, obj[s].m_data)
            /\ obj' = [obj EXCEPT ![s] = NoObj]
            /\ res' = [R("destroy", "ok") EXCEPT !.a = s]
  /\ UNCHANGED nextAddr

(***************************************************************************)
(* operator[] used to read and to write an element: core.hpp:207-212.      *)
(***************************************************************************)
\* Cells of live buffers: where a write outside its own buffer can land.
LiveCells == {c \in Addrs \X (0..(MaxCells - 1)) :
                heap[c[1]].st = "live" /\ c[2] < Len(heap[c[1]].cells)}
Store(h, a, i, v) == IF i < Len(h[a].cells) THEN [h EXCEPT ![a].cells[i + 1] = v] ELSE h

\* v = t[idx]
IndexRead(s, idx) ==
  /\ Running /\ Live(s)
  /\ UNCHANGED <<obj, heap, nextAddr>>
  /\ LET r == [R("index", "ok") EXCEPT !.a = s, !.idxs = <<idx>>]
     IN IF IndexThrows(obj[s], idx) THEN res' = [r EXCEPT !.kind = "out_of_range"]
        ELSE IF InBuf(obj[s], idx) THEN \E v \in CellVals(obj[s], idx) : res' = [r EXCEPT !.val = v]
        ELSE \/ res' = [r EXCEPT !.kind = "segv"]
             \/ /\ HasBuf(obj[s])
                /\ \E v \in Val : res' = [r EXCEPT !.val = v, !.ub = TRUE]

\* t[idx] = v
Write(s, idx, v) ==
  /\ Running /\ Live(s)
  /\ UNCHANGED <<obj, nextAddr>>
  /\ LET r == [R("write", "ok") EXCEPT !.a = s, !.idxs = <<idx>>, !.val = v]
     IN IF IndexThrows(obj[s], idx)
          THEN res' = [r EXCEPT !.kind = "out_of_range"] /\ heap' = heap
        ELSE IF InBuf(obj[s], idx)
          THEN res' = r /\ heap' = Store(heap, obj[s].m_data, idx, v)
        ELSE \/ res' = [r EXCEPT !.kind = "segv"] /\ heap' = heap
             \/ /\ HasBuf(obj[s])
                /\ res' = [r EXCEPT !.ub = TRUE]
                /\ \/ heap' = heap
                   \/ \E c \in LiveCells : heap' = Store(heap, c[1], c[2], v)

(***************************************************************************)
(* tensor(std::initializer_list<tensor<T, Order>>): core.hpp:87-115.       *)
(* ch lists the slots of the children, in list order.                      *)
(***************************************************************************)
\* The first loop, over the children from the i-th on.  st holds size,
\* check_size and m_extents so far.  std::copy of Order extents to
\* m_extents.begin() + 1 stores the last of them one past the end of
\* m_extents, where m_size lives; m_size is assigned afterwards.
RECURSIVE NestedScan(_, _, _, _)
NestedScan(ch, ord, i, st) ==
  IF i > Len(ch) \/ st.throw THEN st
  ELSE LET t == obj[ch[i]]
           st1 == IF st.size = 0
                    THEN [st EXCEPT !.check = t.m_size,
                                    !.ext = [j \in 1..ord |->
                                               IF j = 1 THEN Len(ch) ELSE t.m_extents[j - 1]]]
                    ELSE IF st.check # t.m_size THEN [st EXCEPT !.throw = TRUE]
                    ELSE st
       IN NestedScan(ch, ord, i + 1,
                     IF st1.throw THEN st1 ELSE [st1 EXCEPT !.size = st1.size + t.m_size])

\* The second loop: the children's elements, in list order.
RECURSIVE NestedCells(_, _)
NestedCells(ch, i) ==
  IF i > Len(ch) THEN {<<>>}
  ELSE {w \o r : w \in RawVals(obj[ch[i]], 0, obj[ch[i]].m_size), r \in NestedCells(ch, i + 1)}

NestedList(d, ord, ch) ==
  /\ Running /\ ~Live(d)
  /\ \A i \in 1..Len(ch) : Live(ch[i]) /\ Order(obj[ch[i]]) = ord
  \* With no child m_extents is never assigned: any values.
  /\ \E e0 \in (IF ch = <<>> THEN SeqsOf(ExtVal, ord) ELSE {Zeros(ord)}) :
       LET st == NestedScan(ch, ord, 1, [size |-> 0, check |-> 0, ext |-> e0, throw |-> FALSE])
       IN IF st.throw
            THEN /\ res' = [R("nested", "runtime_error") EXCEPT !.dst = d, !.idxs = ch]
                 /\ UNCHANGED <<obj, heap, nextAddr>>
            ELSE /\ CanAlloc(st.size)
                 /\ nextAddr' = nextAddr + 1
                 /\ \/ /\ \E i \in 1..Len(ch) : RawUB(obj[ch[i]], 0, obj[ch[i]].m_size)
                       /\ res' = [R("nested", "segv") EXCEPT !.dst = d, !.idxs = ch]
                       /\ UNCHANGED <<obj, heap>>
                    \/ \E w \in NestedCells(ch, 1) :
                         /\ heap' = Alloc(w)
                         /\ obj' = [obj EXCEPT ![d] =
                                      [m_data |-> nextAddr, m_extents |-> st.ext,
                                       m_size |-> st.size,
                                       m_strides |-> StridesOf(st.size, st.ext),
                                       ctor |-> "nested"]]
                         /\ res' = [R("nested", "ok") EXCEPT !.dst = d, !.idxs = ch]

(***************************************************************************)
(* get<U>(idxs): core.hpp:236-261.                                         *)
(***************************************************************************)
\* The values a stride can be read as.
StrideVals(x) == IF x = Indet THEN UBStrides ELSE {x}

\* flat_idx after the first loop, for the strides read as st.
RECURSIVE FlatIdx(_, _, _)
FlatIdx(idxs, st, u) ==
  IF u = 0 THEN 0 ELSE FlatIdx(idxs, st, u - 1) + idxs[u] * st[u]

FlatIdxs(t, idxs) ==
  {FlatIdx(idxs, st, Len(idxs)) :
     st \in Choices([j \in 1..Order(t) |-> StrideVals(t.m_strides[j])], Order(t))}

\* The extents of the result: m_extents.begin() + U to the end.
Trailing(t, u) == SubSeq(t.m_extents, u + 1, Order(t))

Get(d, s, idxs) ==
  /\ Running /\ Live(s) /\ Len(idxs) <= Order(obj[s])
  /\ LET t == obj[s]
         u == Len(idxs)
         chained == res.op = "get" /\ res.kind = "ok" /\ res.dst = s
         r0 == [R("get", "ok") EXCEPT !.a = s, !.idxs = idxs,
                                      !.pa = IF chained THEN res.a ELSE 0,
                                      !.pidxs = IF chained THEN res.idxs ELSE <<>>,
                                      !.poff = IF chained THEN res.off ELSE 0]
     IN \E flat \in FlatIdxs(t, idxs) :
          LET r == [r0 EXCEPT !.off = flat]
          IN IF u = Order(t)
               THEN \* return m_data[flat_idx]
                    /\ UNCHANGED <<obj, heap, nextAddr>>
                    /\ \/ /\ RawUB(t, flat, 1)
                          /\ res' = [r EXCEPT !.kind = "segv"]
                       \/ \E w \in RawVals(t, flat, 1) :
                            res' = [r EXCEPT !.val = w[1], !.ub = RawUB(t, flat, 1)]
               ELSE \* result = tensor<T, Order - U>(extents), filled from m_data
                    LET ext == Trailing(t, u)
                        offset == ReduceInt(ext)
                        sub == [m_data |-> nextAddr, m_extents |-> ext,
                                m_size |-> ReduceInt(ext),
                                m_strides |-> StridesOf(ReduceInt(ext), ext),
                                ctor |-> "extents"]
                    IN /\ ~Live(d) /\ CanAlloc(IF Tracked(t) THEN offset ELSE Untracked)
                       /\ nextAddr' = nextAddr + 1
                       /\ \/ /\ RawUB(t, flat, offset)
                             /\ res' = [r EXCEPT !.kind = "segv", !.dst = d]
                             /\ UNCHANGED <<obj, heap>>
                          \/ /\ HasBuf(t) \/ offset = 0
                             /\ IF Tracked(t) /\ offset < Untracked
                                  THEN \E w \in RawVals(t, flat, offset) : heap' = Alloc(w)
                                  ELSE heap' = AllocOpaque(offset)
                             /\ obj' = [obj EXCEPT ![d] = sub]
                             /\ res' = [r EXCEPT !.dst = d, !.ub = RawUB(t, flat, offset)]

(***************************************************************************)
(* operator== and operator!=: core.hpp:460-493.                            *)
(***************************************************************************)
\* A faulty loop of operator==: only the first pair is compared.
EqLoopFirstPair(x, y) == x = <<>> \/ x[1] = y[1]

\* The loop of operator==: false at the first pair that differs.
EqLoop(x, y) == \A i \in 1..Len(x) : x[i] = y[i]
\* The loop of operator!=: false at the first pair that is equal.
NeqLoop(x, y) == \A i \in 1..Len(x) : x[i] # y[i]

\* Eq: core.hpp:460-473.  The loop reads m_data[idx] and other[idx] for
\* idx < m_size.
Eq(a, b) ==
  /\ Running /\ Live(a) /\ Live(b) /\ Order(obj[a]) = Order(obj[b])
  /\ UNCHANGED <<obj, heap, nextAddr>>
  /\ LET x == obj[a]
         y == obj[b]
         r == [R("eq", "ok") EXCEPT !.a = a, !.b = b]
     IN IF x.m_size # y.m_size THEN res' = [r EXCEPT !.bval = FALSE]
        ELSE IF x.m_extents # y.m_extents THEN res' = [r EXCEPT !.bval = FALSE]
        ELSE \/ /\ RawUB(x, 0, x.m_size) \/ RawUB(y, 0, x.m_size)
                /\ res' = [r EXCEPT !.kind = "segv"]
             \/ \E v \in RawVals(x, 0, x.m_size), w \in RawVals(y, 0, x.m_size) :
                  res' = [r EXCEPT !.bval = EqLoop(v, w),
                                   !.ub = RawUB(x, 0, x.m_size) \/ RawUB(y, 0, x.m_size)]

\* Neq: core.hpp:480-493.  The loop reads m_data[idx] and other[idx] for
\* idx < m_size.
Neq(a, b) ==
  /\ Running /\ Live(a) /\ Live(b) /\ Order(obj[a]) = Order(obj[b])
  /\ UNCHANGED <<obj, heap, nextAddr>>
  /\ LET x == obj[a]
         y == obj[b]
         r == [R("neq", "ok") EXCEPT !.a = a, !.b = b]
     IN IF x.m_size # y.m_size THEN res' = [r EXCEPT !.bval = TRUE]
        ELSE IF x.m_extents # y.m_extents THEN res' = [r EXCEPT !.bval = TRUE]
        ELSE \/ /\ RawUB(x, 0, x.m_size) \/ RawUB(y, 0, x.m_size)
                /\ res' = [r EXCEPT !.kind = "segv"]
             \/ \E v \in RawVals(x, 0, x.m_size), w \in RawVals(y, 0, x.m_size) :
                  res' = [r EXCEPT !.bval = NeqLoop(v, w),
                                   !.ub = RawUB(x, 0, x.m_size) \/ RawUB(y, 0, x.m_size)]

(***************************************************************************)
(* operator/ by a tensor and by a scalar: core.hpp:373-382, 439-449.       *)
(***************************************************************************)
\* What other[idx] can do: throw, kill the process, or yield a value.
IndexOutcomes(t, idx) ==
  IF IndexThrows(t, idx) THEN {[k |-> "out_of_range", v |-> 0]}
  ELSE IF InBuf(t, idx) THEN {[k |-> "val", v |-> g] : g \in CellVals(t, idx)}
  ELSE {[k |-> "segv", v |-> 0]} \cup
       (IF HasBuf(t) THEN {[k |-> "val", v |-> g] : g \in Val} ELSE {})

\* other[0], ..., other[n - 1] as the loop can see them.
ViewsOf(t, n) == Choices([p \in 1..n |-> IndexOutcomes(t, p - 1)], n)

\* The first position at which the division loop stops: other[idx] throws,
\* kills the process, or is 0.  n + 1 when it runs to the end.
Stops(w, p) == w[p].k # "val" \/ w[p].v = 0
FirstStop(w) ==
  IF \E p \in 1..Len(w) : Stops(w, p)
    THEN CHOOSE p \in 1..Len(w) : Stops(w, p) /\ \A q \in 1..(p - 1) : ~Stops(w, q)
    ELSE Len(w) + 1
StopKind(w) ==
  IF FirstStop(w) > Len(w) THEN "ok"
  ELSE IF w[FirstStop(w)].k = "val" THEN "domain_error"
  ELSE w[FirstStop(w)].k

\* result[idx] /= other[idx] for T = int: the quotient truncated towards 0.
Abs(x) == IF x < 0 THEN -x ELSE x
Quot(x, y) ==
  IF (x < 0) = (y < 0) THEN Abs(x) \div Abs(y) ELSE -(Abs(x) \div Abs(y))

\* auto result = *this, then the loop; the result is constructed in slot d.
\* A throw unwinds: result is destroyed and its buffer released.
Div(d, a, b) ==
  /\ Running /\ Live(a) /\ Live(b) /\ ~Live(d) /\ Order(obj[a]) = Order(obj[b])
  /\ CanAlloc(obj[a].m_size)
  /\ nextAddr' = nextAddr + 1
  /\ LET x == obj[a]
         r == [R("div", "ok") EXCEPT !.a = a, !.b = b, !.dst = d]
     IN \/ /\ RawUB(x, 0, x.m_size)
           /\ res' = [r EXCEPT !.kind = "segv"]
           /\ UNCHANGED <<obj, heap>>
        \/ \E c \in RawVals(x, 0, x.m_size), w \in ViewsOf(obj[b], x.m_size) :
             IF StopKind(w) = "ok"
               THEN /\ heap' = Alloc([i \in 1..x.m_size |-> Quot(c[i], w[i].v)])
                    /\ obj' = [obj EXCEPT ![d] = CopyOf(x, nextAddr)]
                    /\ res' = [r EXCEPT !.ub = \E p \in 1..x.m_size : ~InBuf(obj[b], p - 1)]
               ELSE /\ heap' = Free(Alloc(c), nextAddr)
                    /\ obj' = obj
                    /\ res' = [r EXCEPT !.kind = StopKind(w)]

\* A faulty scalar division: the copy is made first and val is tested in the
\* loop, as the division by a tensor does.
DivScalarCopyFirst(d, a, sc) ==
  /\ Running /\ Live(a) /\ ~Live(d)
  /\ CanAlloc(obj[a].m_size)
  /\ nextAddr' = nextAddr + 1
  /\ LET x == obj[a]
         r == [R("div_scalar", "ok") EXCEPT !.a = a, !.sc = sc, !.dst = d]
     IN \/ /\ RawUB(x, 0, x.m_size)
           /\ res' = [r EXCEPT !.kind = "segv"]
           /\ UNCHANGED <<obj, heap>>
        \/ \E c \in RawVals(x, 0, x.m_size) :
             IF sc = 0 /\ x.m_size > 0
               THEN /\ heap' = Free(Alloc(c), nextAddr)
                    /\ obj' = obj
                    /\ res' = [r EXCEPT !.kind = "domain_error"]
               ELSE /\ heap' = Alloc([i \in 1..x.m_size |-> Quot(c[i], sc)])
                    /\ obj' = [obj EXCEPT ![d] = CopyOf(x, nextAddr)]
                    /\ res' = r

\* if (val == 0) throw, before anything else.
DivScalar(d, a, sc) ==
  /\ Running /\ Live(a) /\ ~Live(d)
  /\ LET x == obj[a]
         r == [R("div_scalar", "ok") EXCEPT !.a = a, !.sc = sc, !.dst = d]
     IN IF sc = 0
          THEN /\ res' = [r EXCEPT !.kind = "domain_error"]
               /\ UNCHANGED <<obj, heap, nextAddr>>
          ELSE /\ CanAlloc(x.m_size)
               /\ nextAddr' = nextAddr + 1
               /\ \/ /\ RawUB(x, 0, x.m_size)
                     /\ res' = [r EXCEPT !.kind = "segv"]
                     /\ UNCHANGED <<obj, heap>>
                  \/ \E c \in RawVals(x, 0, x.m_size) :
                       /\ heap' = Alloc([i \in 1..x.m_size |-> Quot(c[i], sc)])
                       /\ obj' = [obj EXCEPT ![d] = CopyOf(x, nextAddr)]
                       /\ res' = r

(***************************************************************************)
(* operator+, operator-, operator* by a tensor: core.hpp:334-366.          *)
(***************************************************************************)
ArithOps == {"add", "sub", "mul"}

\* A faulty element step: the operand is applied twice.
ApplyOpTwice(op, x, y) ==
  CASE op = "add" -> x + y + y
    [] op = "sub" -> x - y - y
    [] op = "mul" -> x * y * y

\* result[idx] += other[idx], -= and *= for T = int (also with a scalar val in
\* the place of other[idx]).
ApplyOp(op, x, y) ==
  CASE op = "add" -> x + y
    [] op = "sub" -> x - y
    [] op = "mul" -> x * y

\* How the loop over other[0], ..., other[n - 1] ends: "ok", or what the
\* first other[idx] that yields no value does.
LoopKind(w) ==
  IF \A p \in 1..Len(w) : w[p].k = "val" THEN "ok"
  ELSE w[CHOOSE p \in 1..Len(w) :
           w[p].k # "val" /\ \A q \in 1..(p - 1) : w[q].k = "val"].k

\* auto result = *this, then the loop over result.size() with other[idx]; no
\* test of other's size or extents.  The result is constructed in slot d.  A
\* throw unwinds: result is destroyed and its buffer released.
Arith(op, d, a, b) ==
  /\ Running /\ Live(a) /\ Live(b) /\ ~Live(d) /\ Order(obj[a]) = Order(obj[b])
  /\ CanAlloc(obj[a].m_size)
  /\ nextAddr' = nextAddr + 1
  /\ LET x == obj[a]
         r == [R(op, "ok") EXCEPT !.a = a, !.b = b, !.dst = d]
     IN \/ /\ RawUB(x, 0, x.m_size)
           /\ res' = [r EXCEPT !.kind = "segv"]
           /\ UNCHANGED <<obj, heap>>
        \/ \E c \in RawVals(x, 0, x.m_size), w \in ViewsOf(obj[b], x.m_size) :
             IF LoopKind(w) = "ok"
               THEN /\ heap' = Alloc([i \in 1..x.m_size |-> ApplyOp(op, c[i], w[i].v)])
                    /\ obj' = [obj EXCEPT ![d] = CopyOf(x, nextAddr)]
                    /\ res' = [r EXCEPT !.ub = \E p \in 1..x.m_size : ~InBuf(obj[b], p - 1)]
               ELSE /\ heap' = Free(Alloc(c), nextAddr)
                    /\ obj' = obj
                    /\ res' = [r EXCEPT !.kind = LoopKind(w)]

(***************************************************************************)
(* operator>, operator>=, operator<, operator<=: core.hpp:500-570.         *)
(***************************************************************************)
RelOps == {"gt", "ge", "lt", "le"}

\* The test on which the loop returns false.
RelFails(op, x, y) ==
  CASE op = "gt" -> x <= y
    [] op = "ge" -> x < y
    [] op = "lt" -> x >= y
    [] op = "le" -> x > y

\* The loop: false at the first pair the test catches.
RelLoop(op, v, w) == \A i \in 1..Len(v) : ~RelFails(op, v[i], w[i])

\* operator>= has no test of the extents (core.hpp:520-530); the other three
\* test the sizes, then the extents.  The loop reads m_data[idx] and
\* other[idx] for idx < m_size.
Rel(op, a, b) ==
  /\ Running /\ Live(a) /\ Live(b) /\ Order(obj[a]) = Order(obj[b])
  /\ UNCHANGED <<obj, heap, nextAddr>>
  /\ LET x == obj[a]
         y == obj[b]
         r == [R(op, "ok") EXCEPT !.a = a, !.b = b]
     IN IF x.m_size # y.m_size THEN res' = [r EXCEPT !.kind = "runtime_error"]
        ELSE IF op # "ge" /\ x.m_extents # y.m_extents
          THEN res' = [r EXCEPT !.kind = "runtime_error"]
        ELSE \/ /\ RawUB(x, 0, x.m_size) \/ RawUB(y, 0, x.m_size)
                /\ res' = [r EXCEPT !.kind = "segv"]
             \/ \E v \in RawVals(x, 0, x.m_size), w \in RawVals(y, 0, x.m_size) :
                  res' = [r EXCEPT !.bval = RelLoop(op, v, w),
                                   !.ub = RawUB(x, 0, x.m_size) \/ RawUB(y, 0, x.m_size)]

(***************************************************************************)
(* operator+, operator-, operator* by a scalar: core.hpp:394-429, for      *)
(* T = U = int.                                                            *)
(***************************************************************************)
ScalarOp(op) ==
  CASE op = "add" -> "add_scalar"
    [] op = "sub" -> "sub_scalar"
    [] op = "mul" -> "mul_scalar"
ScalarOps == {ScalarOp(op) : op \in ArithOps}

\* auto result = *this, then result[idx] += val (-=, *=) for idx <
\* result.size().  The result is constructed in slot d.
Broadcast(op, d, a, sc) ==
  /\ Running /\ Live(a) /\ ~Live(d)
  /\ CanAlloc(obj[a].m_size)
  /\ nextAddr' = nextAddr + 1
  /\ LET x == obj[a]
         chained == res.op \in ScalarOps /\ res.kind = "ok" /\ res.dst = a
         r == [R(ScalarOp(op), "ok") EXCEPT !.a = a, !.sc = sc, !.dst = d,
                                            !.pa = IF chained THEN res.a ELSE 0,
                                            !.pop = IF chained THEN res.op ELSE "",
                                            !.psc = IF chained THEN res.sc ELSE 0]
     IN \/ /\ RawUB(x, 0, x.m_size)
           /\ res' = [r EXCEPT !.kind = "segv"]
           /\ UNCHANGED <<obj, heap>>
        \/ \E c \in RawVals(x, 0, x.m_size) :
             /\ heap' = Alloc([i \in 1..x.m_size |-> ApplyOp(op, c[i], sc)])
             /\ obj' = [obj EXCEPT ![d] = CopyOf(x, nextAddr)]
             /\ res' = r

(***************************************************************************)
(* pow, square, sqrt, sin, cos, tan, round: core.hpp:581-660, for T = int  *)
(* and elements that are not negative.  Each computes in double and        *)
(* converts the value back to int, which drops the fraction.               *)
(***************************************************************************)
MathFns == {"pow", "square", "sqrt", "sin", "cos", "tan", "round"}

\* A faulty power: the exponent multiplies.
PowerLinear(x, e) == x * e

RECURSIVE Power(_, _)
Power(x, e) == IF e = 0 THEN 1 ELSE x * Power(x, e - 1)

\* static_cast<int> of std::tan(x) for x in 0..3.
TanInt(x) == <<0, 1, -2, 0>>[x + 1]

\* result[idx] = std::fn(result[idx]); arg is the exponent of pow.
MathValue(fn, x, arg) ==
  CASE fn = "pow" -> Power(x, arg)
    [] fn = "square" -> Power(x, 2)
    [] fn = "sqrt" -> CHOOSE r \in 0..x : r * r <= x /\ (r + 1) * (r + 1) > x
    [] fn = "sin" -> 0
    [] fn = "cos" -> IF x = 0 THEN 1 ELSE 0
    [] fn = "tan" -> TanInt(x)
    [] fn = "round" -> x

\* A faulty math operation: the loop runs over the tensor's own elements and
\* the copy is made afterwards.
MathInPlace(fn, d, a, arg) ==
  /\ Running /\ Live(a) /\ ~Live(d)
  /\ CanAlloc(obj[a].m_size)
  /\ nextAddr' = nextAddr + 1
  /\ LET x == obj[a]
         new == [i \in 1..Len(Cells(x)) |-> MathValue(fn, Cells(x)[i], arg)]
     IN /\ heap' = IF HasBuf(x) THEN [Alloc(new) EXCEPT ![x.m_data].cells = new]
                                ELSE Alloc(new)
        /\ obj' = [obj EXCEPT ![d] = CopyOf(x, nextAddr)]
        /\ res' = [R(fn, "ok") EXCEPT !.a = a, !.sc = arg, !.dst = d]

\* auto result = *this, then the loop over result.size().  The result is
\* constructed in slot d.
Math(fn, d, a, arg) ==
  /\ Running /\ Live(a) /\ ~Live(d)
  /\ CanAlloc(obj[a].m_size)
  /\ nextAddr' = nextAddr + 1
  /\ LET x == obj[a]
         \* The previous operation was a math operation on the same tensor:
         \* pa is the tensor it returned, pop and psc what it was.
         chained == res.op \in MathFns /\ res.kind = "ok" /\ res.a = a
         r == [R(fn, "ok") EXCEPT !.a = a, !.sc = arg, !.dst = d,
                                  !.pa = IF chained THEN res.dst ELSE 0,
                                  !.pop = IF chained THEN res.op ELSE "",
                                  !.psc = IF chained THEN res.sc ELSE 0]
     IN \/ /\ RawUB(x, 0, x.m_size)
           /\ res' = [r EXCEPT !.kind = "segv"]
           /\ UNCHANGED <<obj, heap>>
        \/ \E c \in RawVals(x, 0, x.m_size) :
             /\ heap' = Alloc([i \in 1..x.m_size |-> MathValue(fn, c[i], arg)])
             /\ obj' = [obj EXCEPT ![d] = CopyOf(x, nextAddr)]
             /\ res' = r

(***************************************************************************)
(* builder::range1d(begin, end, stride): builder.hpp:134-152, for T = int  *)
(* and stride > 0.                                                         *)
(***************************************************************************)
\* The values the loop `for (val = begin; val < end; val += stride)` visits.
RECURSIVE RangeVisits(_, _, _)
RangeVisits(val, end, stride) ==
  IF val < end THEN <<val>> \o RangeVisits(val + stride, end, stride) ELSE <<>>

\* dims = {(end - begin) / stride} converted to size_t, the tensor of these
\* extents, then result[idx++] = val for every value visited.  A quotient
\* below 0 becomes a size no allocation has.  A throw of operator[] unwinds:
\* result is destroyed.  With dims = {0} operator[] throws nothing and the
\* store lands outside the buffer.
Range1d(d, begin, end, stride) ==
  /\ Running /\ ~Live(d)
  /\ LET n == Quot(end - begin, stride)
         vis == RangeVisits(begin, end, stride)
         r == [R("range1d", "ok") EXCEPT !.dst = d, !.idxs = <<begin, end, stride>>]
         t == [m_data |-> nextAddr, m_extents |-> <<n>>, m_size |-> ReduceInt(<<n>>),
               m_strides |-> StridesOf(ReduceInt(<<n>>), <<n>>), ctor |-> "extents"]
     IN IF n < 0
          THEN /\ res' = [r EXCEPT !.kind = "bad_alloc"]
               /\ UNCHANGED <<obj, heap, nextAddr>>
          ELSE /\ CanAlloc(n)
               /\ nextAddr' = nextAddr + 1
               /\ IF Len(vis) <= n
                    THEN \* every store is inside the buffer
                         \E g \in SeqsOf(Val, n - Len(vis)) :
                           /\ heap' = Alloc(vis \o g)
                           /\ obj' = [obj EXCEPT ![d] = t]
                           /\ res' = r
                  ELSE IF ~IndexThrows(t, n)
                    THEN \* n = 0: result[0] = begin, outside the buffer
                         \/ /\ res' = [r EXCEPT !.kind = "segv"]
                            /\ UNCHANGED <<obj, heap>>
                         \/ /\ obj' = [obj EXCEPT ![d] = t]
                            /\ res' = [r EXCEPT !.ub = TRUE]
                            /\ \/ heap' = Alloc(<<>>)
                               \/ \E c \in LiveCells :
                                    heap' = Store(Alloc(<<>>), c[1], c[2], vis[n + 1])
                  ELSE \* result[n] throws after n stores
                       /\ heap' = Free(Alloc(SubSeq(vis, 1, n)), nextAddr)
                       /\ obj' = obj
                       /\ res' = [r EXCEPT !.kind = "out_of_range"]

(***************************************************************************)
(* The class tensor::Tensor<N, T> of tensor.hxx.  An instance is kept in a *)
(* slot like a core::tensor: m_extents holds m_dims, there are no strides, *)
(* and ctor is "Tensor".                                                   *)
(***************************************************************************)
IsTensor(s) == obj[s].ctor = "Tensor"

\* dimcheck: tensor.hxx:21-27
dimcheck(dims) == \E j \in 1..Len(dims) : dims[j] = 0

\* Tensor(std::array<std::uint32_t, N> dims): tensor.hxx:31-36.  The
\* accumulator of std::accumulate is the int 1; new T[m_size]{} zeroes the
\* elements.
TensorDims(d, dims) ==
  /\ Running /\ ~Live(d)
  /\ LET r == [R("Tensor", "ok") EXCEPT !.dst = d, !.idxs = dims]
     IN IF dimcheck(dims)
          THEN /\ res' = [r EXCEPT !.kind = "domain_error"]
               /\ UNCHANGED <<obj, heap, nextAddr>>
        ELSE IF ReduceInt(dims) < 0
          THEN /\ res' = [r EXCEPT !.kind = "bad_alloc"]
               /\ UNCHANGED <<obj, heap, nextAddr>>
        ELSE /\ CanAlloc(ReduceInt(dims))
             /\ obj' = [obj EXCEPT ![d] = [m_data |-> nextAddr, m_extents |-> dims,
                                           m_size |-> ReduceInt(dims),
                                           m_strides |-> <<>>, ctor |-> "Tensor"]]
             /\ heap' = Alloc(Zeros(ReduceInt(dims)))
             /\ nextAddr' = nextAddr + 1
             /\ res' = r

\* copy(): tensor.hxx:71, through Tensor(dims, T* data): tensor.hxx:48-54.
\* A new zeroed buffer, then memcpy of m_size elements from m_data.
copy(d, s) ==
  /\ Running /\ IsTensor(s) /\ ~Live(d)
  /\ CanAlloc(obj[s].m_size)
  /\ nextAddr' = nextAddr + 1
  /\ \/ /\ RawUB(obj[s], 0, obj[s].m_size)
        /\ res' = [R("Tensor_copy()", "segv") EXCEPT !.a = s, !.dst = d]
        /\ heap' = heap
        /\ obj' = obj
     \/ \E w \in RawVals(obj[s], 0, obj[s].m_size) :
          /\ obj' = [obj EXCEPT ![d] = [obj[s] EXCEPT !.m_data = nextAddr]]
          /\ heap' = Alloc(w)
          /\ res' = [R("Tensor_copy()", "ok") EXCEPT !.a = s, !.dst = d,
                                                   !.ub = RawUB(obj[s], 0, obj[s].m_size)]

\* Tensor(const Tensor& tensor) = default: tensor.hxx:56-57.  The members are
\* copied one by one, the pointer m_data among them.
TensorCopy(d, s) ==
  /\ Running /\ IsTensor(s) /\ ~Live(d)
  /\ obj' = [obj EXCEPT ![d] = obj[s]]
  /\ res' = [R("Tensor_copy", "ok") EXCEPT !.a = s, !.dst = d]
  /\ UNCHANGED <<heap, nextAddr>>

\* ~Tensor(): tensor.hxx:59-63.  delete m_data of a buffer made by new T[n]:
\* for an arithmetic T both forms hand the pointer to the same deallocation
\* function, so the buffer is released, unless the build checks the pairing
\* and kills the process.  delete of a buffer already released kills it.
TensorDestroy(s) ==
  /\ Running /\ IsTensor(s)
  /\ UNCHANGED nextAddr
  /\ \/ /\ heap[obj[s].m_data].st = "live"
        /\ heap' = Free(heap, obj[s].m_data)
        /\ obj' = [obj EXCEPT ![s] = NoObj]
        /\ res' = [R("Tensor_destroy", "ok") EXCEPT !.a = s]
     \/ /\ res' = [R("Tensor_destroy", "segv") EXCEPT !.a = s,
                     !.ub = (heap[obj[s].m_data].st = "live")]
        /\ UNCHANGED <<obj, heap>>

\* operator[] used to write: tensor.hxx:118-124.  m_size is at least 1.  A
\* write through a pointer to a released buffer is outside every allocation.
TensorWrite(s, idx, v) ==
  /\ Running /\ IsTensor(s)
  /\ UNCHANGED <<obj, nextAddr>>
  /\ LET r == [R("Tensor_write", "ok") EXCEPT !.a = s, !.idxs = <<idx>>, !.val = v]
     IN IF idx > obj[s].m_size - 1
          THEN res' = [r EXCEPT !.kind = "out_of_range"] /\ heap' = heap
        ELSE IF InBuf(obj[s], idx)
          THEN res' = r /\ heap' = Store(heap, obj[s].m_data, idx, v)
        ELSE \/ res' = [r EXCEPT !.kind = "segv"] /\ heap' = heap
             \/ /\ res' = [r EXCEPT !.ub = TRUE]
                /\ \/ heap' = heap
                   \/ \E c \in LiveCells : heap' = Store(heap, c[1], c[2], v)

(***************************************************************************)
(* Specifications.  Each draws the operations' inputs from small sets and  *)
(* constructs new objects in the first free slot.                          *)
(***************************************************************************)
FirstFree(S) == {d \in S : ~Live(d) /\ \A e \in S : e < d => Live(e)}
Idx == 0..MaxExtent
Lists == SeqsUpTo(Val, MaxLen)
Extents(ord) == SeqsOf(ExtVal, ord)

Pair == {1, 2}

\* Any constructor of a tensor of an order in O, into the first free slot of S.
Construct(S, O) ==
  \E d \in FirstFree(S), ord \in O :
    \/ Empty(d, ord)
    \/ \E values \in Lists : FlatList(d, ord, values)
    \/ \E ext \in Extents(ord) : FromExtents(d, ext)

\* Object lifetime: construction, copy, move, assignment, element writes,
\* destruction.
Next ==
  \/ Construct(Pair, {1})
  \/ \E d \in FirstFree(Pair), s \in Pair : CopyCtor(d, s)
  \/ \E d \in Pair, s \in Pair : CopyAssign(d, s)
  \/ \E d \in FirstFree(Pair), s \in Pair : MoveCtor(d, s)
  \/ \E d \in Pair, s \in Pair : MoveAssign(d, s)
  \/ \E s \in Pair : Destroy(s)
  \/ \E s \in Pair, idx \in Idx, v \in Val : Write(s, idx, v)

Spec == Init /\ [][Next]_vars

\* Every way an object comes to be: the constructors, copy and move.
NextCtor ==
  \/ Construct(Pair, Orders)
  \/ \E d \in FirstFree(Pair), ch \in SeqsUpTo(Pair, 2), ord \in Orders : NestedList(d, ord, ch)
  \/ \E d \in FirstFree(Pair), s \in Pair : CopyCtor(d, s)
  \/ \E d \in Pair, s \in Pair : CopyAssign(d, s)
  \/ \E d \in FirstFree(Pair), s \in Pair : MoveCtor(d, s)
  \/ \E d \in Pair, s \in Pair : MoveAssign(d, s)

SpecCtor == Init /\ [][NextCtor]_vars

\* operator[] on objects in every state construction and move can leave.
NextIndex ==
  \/ Construct(Pair, Orders)
  \/ \E d \in FirstFree(Pair), s \in Pair : MoveCtor(d, s)
  \/ \E s \in Pair, idx \in Idx : IndexRead(s, idx)
  \/ \E s \in Pair, idx \in Idx, v \in Val : Write(s, idx, v)

SpecIndex == Init /\ [][NextIndex]_vars

\* Comparisons of two objects.
NextCmp ==
  \/ Construct(Pair, Orders)
  \/ \E a \in Pair, b \in Pair : Eq(a, b)
  \/ \E a \in Pair, b \in Pair : Neq(a, b)

SpecCmp == Init /\ [][NextCmp]_vars

\* Extents whose product, or a quotient of it by leading extents, has no exact
\* float: 16777217 = 97 * 172961 = 2^24 + 1, 33554438 = 2 * 16777219.
BigExtents == {<<16777217>>, <<97, 172961>>, <<172961, 97>>, <<2, 16777219>>}

\* get on a constructed object, and on the tensor get returned.
NextGet ==
  \/ Construct({1}, Orders)
  \/ \E d \in FirstFree({1}), ext \in BigExtents : FromExtents(d, ext)
  \/ \E s \in Pair, u \in {0} \cup Orders : \E idxs \in SeqsOf(Idx, u) : Get(2, s, idxs)

SpecGet == Init /\ [][NextGet]_vars

\* Division of two objects, the quotient constructed in slot 3.
Scalars == 0..(MaxVal + 1)
NextDiv ==
  \/ Construct(Pair, Orders)
  \/ \E a \in Pair, b \in Pair : Div(3, a, b)
  \/ \E a \in Pair, sc \in Scalars : DivScalar(3, a, sc)

SpecDiv == Init /\ [][NextDiv]_vars

\* Element-wise arithmetic of two objects, the result constructed in slot 3.
NextArith ==
  \/ Construct(Pair, Orders)
  \/ \E op \in ArithOps, a \in Pair, b \in Pair : Arith(op, 3, a, b)
  \/ \E a \in Pair, b \in Pair : Div(3, a, b)

SpecArith == Init /\ [][NextArith]_vars

\* Ordering comparisons of two objects.
NextRel ==
  \/ Construct(Pair, Orders)
  \/ \E op \in RelOps, a \in Pair, b \in Pair : Rel(op, a, b)

SpecRel == Init /\ [][NextRel]_vars

\* A tensor built from a list of up to MaxLen objects, in slot 3.
NextNested ==
  \/ Construct(Pair, Orders)
  \/ \E ord \in Orders, ch \in SeqsUpTo(Pair, MaxLen) : NestedList(3, ord, ch)

SpecNested == Init /\ [][NextNested]_vars

\* A scalar applied to an object, and to the tensor that returned.
BroadcastScalars == -1..(MaxVal + 1)
NextScalar ==
  \/ Construct({1}, Orders)
  \/ \E op \in ArithOps, d \in FirstFree({2, 3}), a \in Pair, sc \in BroadcastScalars :
       Broadcast(op, d, a, sc)
  \/ \E d \in FirstFree({2, 3}), a \in Pair, sc \in BroadcastScalars : DivScalar(d, a, sc)

SpecScalar == Init /\ [][NextScalar]_vars

\* Every operation that takes tensors as operands and returns a value or a
\* new tensor (in slot 3), and the element write.  The operands are Order-1
\* objects: slot 1, or slots 1 and 2, or slot 1 twice.
Exponents == {0, 2}
FrameScalars == {0, 1}
Operands == {<<1, 2>>, <<1, 1>>}
NextFrame ==
  \/ Construct(Pair, {1})
  \/ \E idx \in Idx, v \in Val : Write(1, idx, v)
  \/ \E op \in ArithOps, p \in Operands : Arith(op, 3, p[1], p[2])
  \/ \E p \in Operands : Div(3, p[1], p[2])
  \/ \E op \in ArithOps, sc \in FrameScalars : Broadcast(op, 3, 1, sc)
  \/ \E sc \in FrameScalars : DivScalar(3, 1, sc)
  \/ \E p \in Operands : Eq(p[1], p[2])
  \/ \E p \in Operands : Neq(p[1], p[2])
  \/ \E op \in RelOps, p \in Operands : Rel(op, p[1], p[2])
  \/ \E fn \in MathFns \ {"pow"} : Math(fn, 3, 1, 0)
  \/ \E e \in Exponents : Math("pow", 3, 1, e)
  \/ \E u \in {0, 1} : \E idxs \in SeqsOf(Idx, u) : Get(3, 1, idxs)

SpecFrame == Init /\ [][NextFrame]_vars

\* Construction, move construction and destruction.
NextMove ==
  \/ Construct(Pair, Orders)
  \/ \E d \in FirstFree(Pair), s \in Pair : MoveCtor(d, s)
  \/ \E s \in Pair : Destroy(s)

SpecMove == Init /\ [][NextMove]_vars

\* Extents whose product has more than 31 bits (2^32, 2^32 + 2^16,
\* 46341^2 = 2^31 + 4633), and one whose product has not (46340^2).
WideExtents == {<<65536, 65536>>, <<65536, 65537>>, <<46341, 46341>>, <<46340, 46340>>}

\* The extents constructor on small and on wide extents.
NextExtents ==
  \/ \E d \in FirstFree(Pair), ord \in Orders : \E ext \in Extents(ord) : FromExtents(d, ext)
  \/ \E d \in FirstFree(Pair), ext \in WideExtents : FromExtents(d, ext)

SpecExtents == Init /\ [][NextExtents]_vars

\* pow and square of an object, the results in slots 2 and 3.  The flat
\* lists hold larger and negative elements as well.
MathVals == -2..3
NextMath ==
  \/ Construct({1}, Orders)
  \/ \E ord \in Orders, values \in SeqsUpTo(MathVals, MaxLen) : FlatList(1, ord, values)
  \/ \E d \in FirstFree({2, 3}) : Math("square", d, 1, 0)
  \/ \E d \in FirstFree({2, 3}), e \in 0..2 : Math("pow", d, 1, e)

SpecMath == Init /\ [][NextMath]_vars

\* range1d next to objects constructed before it.
RangeEnds == 0..(MaxExtent + 2)
RangeStrides == 1..(MaxLen + 1)
NextRange ==
  \/ Construct(Pair, {1})
  \/ \E d \in FirstFree(Pair), begin \in RangeEnds, end \in RangeEnds, stride \in RangeStrides :
       Range1d(d, begin, end, stride)

SpecRange == Init /\ [][NextRange]_vars

\* Instances of tensor::Tensor<1, T>: construction, copy construction,
\* copy(), element writes and destruction.
Dims == SeqsOf(ExtVal, 1)
NextTensor ==
  \/ \E d \in FirstFree(Slots), dims \in Dims : TensorDims(d, dims)
  \/ \E d \in FirstFree(Slots), s \in Slots : TensorCopy(d, s)
  \/ \E d \in FirstFree(Slots), s \in Slots : copy(d, s)
  \/ \E s \in Slots, idx \in Idx, v \in Val : TensorWrite(s, idx, v)
  \/ \E s \in Slots : TensorDestroy(s)

SpecTensor == Init /\ [][NextTensor]_vars

(***************************************************************************)
(* Notions the claims are stated with.                                     *)
(***************************************************************************)
\* The object the last operation was applied to, its other operand, and the
\* object it constructed.
ResA == obj[res.a]
ResB == obj[res.b]
ResDst == obj[res.dst]

AllPositive(ext) == \A j \in 1..Len(ext) : ext[j] > 0
\* idxs[j] < extents[j] for every index given.
ValidIdxs(idxs, ext) ==
  Len(idxs) <= Len(ext) /\ \A j \in 1..Len(idxs) : idxs[j] < ext[j]

\* The row-major offset of idxs in a tensor of extents ext: idxs[j] times the
\* product of the extents after j.
RECURSIVE RowMajor(_, _)
RowMajor(idxs, ext) ==
  IF idxs = <<>> THEN 0
  ELSE Head(idxs) * Product(Tail(ext)) + RowMajor(Tail(idxs), Tail(ext))

\* The elements t reads through its buffer pointer in heap h.
CellsIn(h, t) == IF t.m_data # NULL THEN h[t.m_data].cells ELSE <<>>

\* Equal size, equal extents, equal elements at every flat index.
StructEqual(x, y) ==
  /\ x.m_size = y.m_size
  /\ x.m_extents = y.m_extents
  /\ \A i \in 1..x.m_size : Cells(x)[i] = Cells(y)[i]

(***************************************************************************)
(* C1.  t[i] returns the element at flat offset i when i < size and fails  *)
(* with an out-of-range error when i >= size, for every tensor, the        *)
(* default-constructed and the zero-sized ones included.                   *)
(* The code does not: for size 0, m_size - 1 wraps and nothing is thrown.  *)
(***************************************************************************)
C1_IndexChecked ==
  res.op \in {"index", "write"} =>
    IF res.idxs[1] < ResA.m_size
      THEN /\ res.kind = "ok"
           /\ res.op = "index" => res.val = Cells(ResA)[res.idxs[1] + 1]
           /\ res.op = "write" => Cells(ResA)[res.idxs[1] + 1] = res.val
      ELSE res.kind = "out_of_range"

(***************************************************************************)
(* C2.  a != b is true exactly when a == b is false: when the sizes, the   *)
(* extents or at least one element differ.                                 *)
(* The code does not: operator!= returns false at the first equal pair of  *)
(* elements, and true for two empty tensors.                               *)
(***************************************************************************)
C2_NeqIsNotEq ==
  (res.op = "neq" /\ res.kind = "ok") => (res.bval = ~StructEqual(ResA, ResB))

(***************************************************************************)
(* C3.  a == b is true exactly when a and b have equal size, equal extents *)
(* and equal elements at every flat index in [0, size); equal size with    *)
(* different extents is not equal; t == t holds.                           *)
(***************************************************************************)
C3_EqIsStructural ==
  res.op = "eq" =>
    /\ res.kind = "ok"
    /\ res.bval = StructEqual(ResA, ResB)
    /\ (ResA.m_size = ResB.m_size /\ ResA.m_extents # ResB.m_extents) => ~res.bval
    /\ res.a = res.b => res.bval

\* == has compared two tensors of equal size and different extents, and two
\* of equal shape that differ in their last element only.
C3_Witness ==
  /\ res.op = "eq" /\ ~res.bval
  /\ ResA.m_size = ResB.m_size /\ ResA.m_size = 2
  /\ \/ ResA.m_extents # ResB.m_extents
     \/ Cells(ResA)[1] = Cells(ResB)[1]

(***************************************************************************)
(* C4.  No two live instances hold the same buffer; right after a copy the *)
(* copy's elements equal the source's; a write through operator[] on one   *)
(* instance never changes the elements another instance observes.          *)
(* The code does not keep the last part: operator[] on a zero-sized tensor *)
(* throws nothing (C1), and the write lands outside its buffer.            *)
(***************************************************************************)
C4_NoSharedBuffer ==
  \A s1 \in Slots, s2 \in Slots :
    (s1 # s2 /\ Live(s1) /\ Live(s2) /\ HasBuf(obj[s1])) => obj[s1].m_data # obj[s2].m_data

C4_CopyEqualsSource ==
  (res.op \in {"copy", "copy_assign"} /\ res.kind = "ok") => Cells(ResDst) = Cells(ResA)

C4_OwnBuffers ==
  [][ /\ C4_NoSharedBuffer'
      /\ C4_CopyEqualsSource'
      /\ res'.op = "write" =>
           \A s \in Slots \ {res'.a} : Live(s) => CellsIn(heap', obj'[s]) = Cells(obj[s]) ]_vars

(***************************************************************************)
(* C5.  With U = Order on a tensor built by the extents constructor with   *)
(* all extents positive, and idxs[j] < extents[j] for every j, get returns *)
(* the element at flat offset sum idxs[j] * strides[j], which is the       *)
(* row-major element at idxs.                                              *)
(* The code does not for sizes that have no exact float: the strides are   *)
(* computed in float and come out wrong.                                   *)
(***************************************************************************)
C5_GetScalar ==
  (/\ res.op = "get" /\ Len(res.idxs) = Order(ResA)
   /\ ResA.ctor = "extents" /\ AllPositive(ResA.m_extents)
   /\ ValidIdxs(res.idxs, ResA.m_extents))
  => /\ res.kind = "ok" /\ ~res.ub
     /\ res.off = RowMajor(res.idxs, ResA.m_extents)
     /\ res.val \in CellVals(ResA, res.off)

(***************************************************************************)
(* C6.  With U < Order and a valid index prefix, get returns a new tensor  *)
(* of order Order - U whose extents are the trailing Order - U extents of  *)
(* the source and whose elements are a copy of the contiguous slice        *)
(* [flat, flat + block) of the source, flat = sum of prefix[j]*strides[j], *)
(* block = the product of the trailing extents; the source is unchanged    *)
(* and the result owns a buffer of its own.                                *)
(* The code does not when a stride computed in float is too large: the     *)
(* slice then runs past the end of the source's buffer.                    *)
(***************************************************************************)
C6_GetSubTensor ==
  [][ (/\ res'.op = "get" /\ Len(res'.idxs) < Order(obj[res'.a])
       /\ ValidIdxs(res'.idxs, obj[res'.a].m_extents))
      => LET t == obj[res'.a]
             u == Len(res'.idxs)
             flat == FlatIdx(res'.idxs, t.m_strides, u)
             trail == SubSeq(t.m_extents, u + 1, Order(t))
             block == Product(trail)
             r == obj'[res'.dst]
         IN /\ res'.kind = "ok" /\ ~res'.ub
            /\ res'.off = flat
            /\ Order(r) = Order(t) - u
            /\ r.m_extents = trail
            /\ HasBuf(r) /\ r.m_data # t.m_data
            /\ heap'[r.m_data].len = block
            /\ Tracked(t) => CellsIn(heap', r) = SubSeq(Cells(t), flat + 1, flat + block)
            /\ obj'[res'.a] = t
            /\ HasBuf(t) => heap'[t.m_data] = heap[t.m_data] ]_vars

(***************************************************************************)
(* C7.  On a tensor t with positive extents e (built by the extents        *)
(* constructor): for a valid prefix, get<U>(prefix) has size               *)
(* e[U] * ... * e[Order - 1]; and get<Order - U>(suffix) on that result    *)
(* returns the same scalar as get<Order>(prefix ++ suffix) on t: it reads  *)
(* a copy of the element of t that get<Order> reads.                       *)
(* The code does not for sizes that have no exact float: t's strides are   *)
(* wrong and the sub-tensor's are not.                                     *)
(***************************************************************************)
C7_SubTensorLaw ==
  /\ (/\ res.op = "get" /\ Len(res.idxs) < Order(ResA)
      /\ ResA.ctor = "extents" /\ AllPositive(ResA.m_extents)
      /\ ValidIdxs(res.idxs, ResA.m_extents))
     => /\ res.kind = "ok"
        /\ ResDst.m_size = Product(SubSeq(ResA.m_extents, Len(res.idxs) + 1, Order(ResA)))
  /\ (/\ res.op = "get" /\ res.pa # 0
      /\ obj[res.pa].ctor = "extents" /\ AllPositive(obj[res.pa].m_extents)
      /\ Len(res.pidxs \o res.idxs) = Order(obj[res.pa])
      /\ ValidIdxs(res.pidxs \o res.idxs, obj[res.pa].m_extents))
     => /\ res.kind = "ok" /\ ~res.ub
        /\ res.poff + res.off =
             FlatIdx(res.pidxs \o res.idxs, obj[res.pa].m_strides, Order(obj[res.pa]))
        /\ res.val \in CellVals(obj[res.pa], res.poff + res.off)

(***************************************************************************)
(* C8.  After every successful construction and every successful           *)
(* operation, size equals the product of the Order extents.                *)
(* The code does not keep it: the flat-list constructor of an Order > 1    *)
(* tensor leaves extents {n, 0, ...} with size n (C21), and the nested     *)
(* constructor adds up its children's sizes.                               *)
(***************************************************************************)
C8_SizeIsProduct ==
  \A s \in Slots : Live(s) => obj[s].m_size = Product(obj[s].m_extents)

(***************************************************************************)
(* C9.  a / b with equal extents and b holding at least one zero element   *)
(* fails with a domain error, gives no result and leaves a and b as they   *)
(* were.                                                                   *)
(* The code does not when a has fewer elements than b: the loop runs over  *)
(* a's size, and extents do not determine the size (C8).                   *)
(***************************************************************************)
C9_DivByZeroFails ==
  [][ (/\ res'.op = "div"
       /\ obj[res'.a].m_extents = obj[res'.b].m_extents
       /\ \E i \in 1..obj[res'.b].m_size : Cells(obj[res'.b])[i] = 0)
      => /\ res'.kind = "domain_error"
         /\ obj' = obj
         /\ \A s \in Slots : CellsIn(heap', obj'[s]) = Cells(obj[s]) ]_vars

(***************************************************************************)
(* C10.  t / s with s = 0 fails with a domain error before any copy is     *)
(* made: nothing is allocated and nothing changes.  With s # 0 the         *)
(* operation never fails with a domain error.                              *)
(***************************************************************************)
C10_ScalarDivZero ==
  [][ res'.op = "div_scalar" =>
        IF res'.sc = 0
          THEN res'.kind = "domain_error" /\ UNCHANGED <<obj, heap, nextAddr>>
          ELSE res'.kind # "domain_error" ]_vars

\* A tensor with elements has been divided by the scalar 0: a domain error,
\* and the operand's buffer is still the last one allocated.
C10_Witness ==
  /\ res.op = "div_scalar" /\ res.sc = 0 /\ res.kind = "domain_error"
  /\ ResA.m_size > 0 /\ ResA.m_data = nextAddr - 1

(***************************************************************************)
(* C11.  a + b, a - b, a * b and a / b on tensors whose extents differ     *)
(* (equal size with different extents, and a right operand larger than the *)
(* left, included) fail with a shape-mismatch error and return no result.  *)
(* The code does not: none of the four operators looks at the other        *)
(* operand's size or extents.                                              *)
(***************************************************************************)
C11_ShapeMismatchFails ==
  [][ (/\ res'.op \in ArithOps \cup {"div"}
       /\ obj[res'.a].m_extents # obj[res'.b].m_extents)
      => /\ res'.kind = "runtime_error"
         /\ obj'[res'.dst] = NoObj ]_vars

(***************************************************************************)
(* C12.  Each of >, >=, <, <= fails with a size- or shape-mismatch error   *)
(* whenever the operands' sizes or extents differ; operands of equal size  *)
(* and different extents are rejected by all four, with no boolean.        *)
(* The code does not: operator>= tests the sizes only.                     *)
(***************************************************************************)
C12_RelMismatchFails ==
  (/\ res.op \in RelOps
   /\ ResA.m_size # ResB.m_size \/ ResA.m_extents # ResB.m_extents)
  => res.kind = "runtime_error"

\* The relation an ordering operator stands for.
RelHolds(op, x, y) ==
  CASE op = "gt" -> x > y
    [] op = "ge" -> x >= y
    [] op = "lt" -> x < y
    [] op = "le" -> x <= y

(***************************************************************************)
(* C13.  For a and b of equal extents, a > b (>=, <, <=) is true exactly   *)
(* when the relation holds at every flat index; so when a[i] < b[i] at     *)
(* some index and a[j] > b[j] at another, every one of the four is false,  *)
(* in both orders of the operands.                                         *)
(* The code does not return a boolean for every such pair: equal extents   *)
(* do not mean equal sizes (C8), and for different sizes it throws.        *)
(***************************************************************************)
C13_RelIsElementwise ==
  (res.op \in RelOps /\ ResA.m_extents = ResB.m_extents)
  => /\ res.kind = "ok"
     /\ res.bval = \A i \in 1..ResA.m_size :
                      RelHolds(res.op, Cells(ResA)[i], Cells(ResB)[i])
     /\ (/\ \E i \in 1..ResA.m_size : Cells(ResA)[i] < Cells(ResB)[i]
         /\ \E j \in 1..ResA.m_size : Cells(ResA)[j] > Cells(ResB)[j])
        => ~res.bval

\* The children of the list the last nested-list construction was given.
Child(i) == obj[res.idxs[i]]

(***************************************************************************)
(* C14.  Nested-list construction fails with a shape-mismatch error and    *)
(* constructs nothing whenever two children of the list differ in extents, *)
(* children of equal size and different extents and lists whose first      *)
(* child is empty included.                                                *)
(* The code does not: it compares the children's sizes only, and only      *)
(* against the first child that is not empty.                              *)
(***************************************************************************)
C14_NestedValidates ==
  (/\ res.op = "nested"
   /\ \E i, j \in 1..Len(res.idxs) : Child(i).m_extents # Child(j).m_extents)
  => /\ res.kind = "runtime_error"
     /\ ResDst = NoObj

\* The row-major strides of extents ext: the product of the extents after j.
RowMajorStrides(ext) == [j \in 1..Len(ext) |-> Product(SubSeq(ext, j + 1, Len(ext)))]

\* The elements of the children ch, one child after the other.
RECURSIVE Concat(_)
Concat(ch) == IF ch = <<>> THEN <<>> ELSE Cells(obj[Head(ch)]) \o Concat(Tail(ch))

RECURSIVE SumSizes(_)
SumSizes(ch) == IF ch = <<>> THEN 0 ELSE obj[Head(ch)].m_size + SumSizes(Tail(ch))

(***************************************************************************)
(* C15.  Nested-list construction from k >= 1 children of identical shape  *)
(* yields a tensor with leading extent k, the children's leading extents   *)
(* after it, size the sum of the children's sizes, the children's elements *)
(* concatenated in list order, and the row-major strides of those extents; *)
(* the children are unchanged.                                             *)
(* The code does not: the strides are derived from the size, which is not  *)
(* the product of the extents the result gets.                             *)
(***************************************************************************)
C15_NestedShape ==
  [][ (/\ res'.op = "nested" /\ Len(res'.idxs) >= 1
       /\ \A i \in 1..Len(res'.idxs) :
            /\ obj[res'.idxs[i]].m_extents = obj[res'.idxs[1]].m_extents
            /\ obj[res'.idxs[i]].m_size = obj[res'.idxs[1]].m_size)
      => LET ch == res'.idxs
             k == Len(ch)
             c == obj[ch[1]]
             t == obj'[res'.dst]
         IN /\ res'.kind = "ok"
            /\ t.m_extents = [j \in 1..Order(c) |-> IF j = 1 THEN k ELSE c.m_extents[j - 1]]
            /\ t.m_size = SumSizes(ch)
            /\ CellsIn(heap', t) = Concat(ch)
            /\ \A i \in 1..k, p \in 1..c.m_size :
                 CellsIn(heap', t)[(i - 1) * c.m_size + p] = Cells(obj[ch[i]])[p]
            /\ t.m_strides = RowMajorStrides(t.m_extents)
            /\ \A i \in 1..k : /\ obj'[ch[i]] = obj[ch[i]]
                               /\ CellsIn(heap', obj'[ch[i]]) = Cells(obj[ch[i]]) ]_vars

\* a[i] op b[i] for integer elements.
OpValue(op, x, y) ==
  CASE op = "add" -> x + y
    [] op = "sub" -> x - y
    [] op = "mul" -> x * y
    [] op = "div" -> CHOOSE q \in -Abs(x)..Abs(x) :
                       \E r \in -Abs(x)..Abs(x) :
                         x = q * y + r /\ Abs(r) < Abs(y) /\ (r = 0 \/ (r < 0) = (x < 0))

(***************************************************************************)
(* C16.  For a and b of equal extents, a + b, a - b, a * b (and a / b when *)
(* b has no zero element) return a new tensor with a's extents, size and   *)
(* strides whose element at every flat index i is a[i] op b[i].            *)
(* The code does not for every such pair: equal extents do not mean equal  *)
(* sizes (C8), and b[i] is read whether or not b has an element i (C1).    *)
(***************************************************************************)
C16_Elementwise ==
  (/\ res.op \in ArithOps \cup {"div"}
   /\ ResA.m_extents = ResB.m_extents
   /\ res.op = "div" => \A i \in 1..ResB.m_size : Cells(ResB)[i] # 0)
  => /\ res.kind = "ok" /\ ~res.ub
     /\ ResDst.m_extents = ResA.m_extents
     /\ ResDst.m_size = ResA.m_size
     /\ ResDst.m_strides = ResA.m_strides
     /\ HasBuf(ResDst) /\ ResDst.m_data \notin {ResA.m_data, ResB.m_data}
     /\ \A i \in 1..ResA.m_size :
          Cells(ResDst)[i] = OpValue(res.op, Cells(ResA)[i], Cells(ResB)[i])

\* The operator a scalar operation applies to every element.
OpOf(name) ==
  CASE name = "add_scalar" -> "add"
    [] name = "sub_scalar" -> "sub"
    [] name = "mul_scalar" -> "mul"
    [] name = "div_scalar" -> "div"

(***************************************************************************)
(* C17.  For every tensor a and scalar s, a + s, a - s, a * s (and a / s   *)
(* for s # 0) return a new tensor with a's extents whose element at every  *)
(* flat index i is a[i] op s; so a + 0, a - 0, a * 1 and a / 1 equal a,    *)
(* and so does (a + s) - s, for integer elements.                          *)
(***************************************************************************)
C17_ScalarBroadcast ==
  (/\ res.op \in ScalarOps \cup {"div_scalar"}
   /\ res.op = "div_scalar" => res.sc # 0)
  => /\ res.kind = "ok"
     /\ ResDst.m_extents = ResA.m_extents
     /\ ResDst.m_size = ResA.m_size
     /\ HasBuf(ResDst) /\ ResDst.m_data # ResA.m_data
     /\ \A i \in 1..ResA.m_size :
          Cells(ResDst)[i] = OpValue(OpOf(res.op), Cells(ResA)[i], res.sc)
     /\ (res.sc = 0 /\ res.op \in {"add_scalar", "sub_scalar"}) => StructEqual(ResDst, ResA)
     /\ (res.sc = 1 /\ res.op \in {"mul_scalar", "div_scalar"}) => StructEqual(ResDst, ResA)
     /\ (res.op = "sub_scalar" /\ res.pop = "add_scalar" /\ res.psc = res.sc)
        => StructEqual(ResDst, obj[res.pa])

\* (a + s) - s has been computed for a tensor a of MaxLen elements and the
\* largest scalar, and its elements are a's.
C17_Witness ==
  /\ res.op = "sub_scalar" /\ res.kind = "ok"
  /\ res.pop = "add_scalar" /\ res.psc = res.sc /\ res.sc = MaxVal + 1
  /\ obj[res.pa].m_size = MaxLen
  /\ Cells(ResDst) = Cells(obj[res.pa])

\* The operations that take tensors as operands and return a value or a new
\* tensor.
FrameOps ==
  ArithOps \cup {"div"} \cup ScalarOps \cup {"div_scalar"} \cup {"eq", "neq"}
    \cup RelOps \cup MathFns \cup {"get"}

C19_MoveTransfers ==
  [][ /\ res'.op = "move" =>
           LET s == obj[res'.a]
               s1 == obj'[res'.a]
               d1 == obj'[res'.dst]
           IN /\ res'.kind = "ok"
              /\ d1.m_data = s.m_data /\ d1.m_extents = s.m_extents
              /\ d1.m_size = s.m_size /\ d1.m_strides = s.m_strides
              /\ s1.m_data = NULL
              /\ s1.m_extents = s.m_extents /\ s1.m_size = s.m_size
              /\ s1.m_strides = s.m_strides
              /\ heap' = heap /\ nextAddr' = nextAddr
      /\ (res'.op = "destroy" /\ obj[res'.a].m_data = NULL) =>
           /\ res'.kind = "ok"
           /\ heap' = heap
           /\ obj'[res'.a] = NoObj ]_vars

\* A tensor of MaxLen elements has been moved from: the destination holds
\* its live buffer, the source a null pointer and the size it had.
C19_Witness ==
  /\ res.op = "move" /\ res.kind = "ok"
  /\ HasBuf(ResDst) /\ heap[ResDst.m_data].st = "live"
  /\ ResDst.m_size = MaxLen /\ Len(Cells(ResDst)) = MaxLen
  /\ ~HasBuf(ResA) /\ ResA.m_size = MaxLen

\* size is the product of the extents ext, stated without forming a product
\* larger than size.
RECURSIVE IsProduct(_, _)
IsProduct(size, ext) ==
  IF ext = <<>> THEN size = 1
  ELSE IF Head(ext) = 0 THEN size = 0
  ELSE size % Head(ext) = 0 /\ IsProduct(size \div Head(ext), Tail(ext))

(***************************************************************************)
(* C20.  For every extents e whose product fits size_type, the tensor the  *)
(* extents constructor yields has extents() = e and size() = product(e),   *)
(* the product carried at the full width of size_type.                     *)
(* The code does not: std::reduce is given the int 1 as its initial value, *)
(* so the product is accumulated in an int and loses its high bits.        *)
(***************************************************************************)
C20_SizeAtFullWidth ==
  (res.op = "extents" /\ res.kind = "ok")
  => /\ ResDst.m_extents = res.idxs
     /\ IsProduct(ResDst.m_size, res.idxs)

(***************************************************************************)
(* C21.  Constructing a tensor of Order > 1 from a flat list of element    *)
(* values fails and yields no tensor; in particular there is never a       *)
(* tensor with extents {n, 0, ...} and size n.                             *)
(* The code does not: the flat-list constructor has no test of Order and   *)
(* constructs exactly that tensor.                                         *)
(***************************************************************************)
C21_FlatListOrderOne ==
  /\ (res.op = "flat" /\ res.kind = "ok") => Order(ResDst) = 1
  /\ \A s \in Slots :
       (Live(s) /\ Order(obj[s]) > 1 /\ obj[s].m_size > 0)
         => obj[s].m_extents # [j \in 1..Order(obj[s]) |-> IF j = 1 THEN obj[s].m_size ELSE 0]

(***************************************************************************)
(* C22.  For a tensor a with integer elements, square() and pow(2) return  *)
(* a new tensor with a's extents whose element i is a[i] * a[i]; pow(1)    *)
(* returns a tensor equal to a; pow(2) equals square(); a is unchanged.    *)
(***************************************************************************)
C22_SquareAndPow ==
  [][ (res'.op \in {"square", "pow"}) =>
        LET a == obj[res'.a]
            r == obj'[res'.dst]
            squares == res'.op = "square" \/ res'.sc = 2
        IN /\ res'.kind = "ok"
           /\ r.m_extents = a.m_extents /\ r.m_size = a.m_size
           /\ r.m_data \notin {NULL, a.m_data}
           /\ squares => \A i \in 1..a.m_size : CellsIn(heap', r)[i] = Cells(a)[i] * Cells(a)[i]
           /\ (res'.op = "pow" /\ res'.sc = 1) =>
                \A i \in 1..a.m_size : CellsIn(heap', r)[i] = Cells(a)[i]
           /\ (squares /\ res'.pop \in {"square", "pow"} /\ res'.pop # res'.op
                 /\ (res'.pop = "square" \/ res'.psc = 2)) =>
                /\ r.m_extents = obj'[res'.pa].m_extents /\ r.m_size = obj'[res'.pa].m_size
                /\ \A i \in 1..r.m_size : CellsIn(heap', r)[i] = CellsIn(heap', obj'[res'.pa])[i]
           /\ obj'[res'.a] = a
           /\ CellsIn(heap', obj'[res'.a]) = Cells(a) ]_vars

\* square() has been taken right after pow(2) of the same tensor, which
\* holds an element whose square is neither the element nor its double.
C22_Witness ==
  /\ res.op = "square" /\ res.kind = "ok" /\ res.pop = "pow" /\ res.psc = 2
  /\ ResA.m_size = MaxLen
  /\ \E i \in 1..ResA.m_size : Cells(ResA)[i] = 3 /\ Cells(ResDst)[i] = 9
  /\ Cells(obj[res.pa]) = Cells(ResDst)

\* The values begin, begin + stride, ... below end, as a set of positions k.
RangeCount(begin, end, stride) ==
  Cardinality({k \in 0..(end - begin) : begin + k * stride < end})

(***************************************************************************)
(* C23.  For begin < end and stride > 0, range1d(begin, end, stride)       *)
(* returns an Order-1 tensor holding exactly begin, begin + stride,        *)
(* begin + 2 * stride, ... below end, in that order, its size the number   *)
(* of those values, also when end - begin is no multiple of stride; it     *)
(* never fails with an out-of-range error.                                 *)
(* The code does not: the size is (end - begin) / stride rounded down, one *)
(* less than the number of values when stride does not divide end - begin. *)
(***************************************************************************)
C23_RangeValues ==
  (res.op = "range1d" /\ res.idxs[1] < res.idxs[2] /\ res.idxs[3] > 0)
  => LET begin == res.idxs[1]
         end == res.idxs[2]
         stride == res.idxs[3]
     IN /\ res.kind = "ok" /\ ~res.ub
        /\ Order(ResDst) = 1
        /\ ResDst.m_size = RangeCount(begin, end, stride)
        /\ Cells(ResDst) = [k \in 1..RangeCount(begin, end, stride) |-> begin + (k - 1) * stride]

(***************************************************************************)
(* C24.  Over any sequence of constructions, copies, moves, assignments    *)
(* and destructions every buffer allocated is released exactly once by the *)
(* time all instances are destroyed: none is released twice, none is left  *)
(* unreleased; copy- or move-assigning to a tensor that owns a buffer      *)
(* releases that buffer.                                                   *)
(* The code does not: both assignment operators overwrite m_data without   *)
(* delete[] of the buffer it pointed to.                                   *)
(***************************************************************************)
C24_ReleasedOnce ==
  /\ \A a \in Addrs : heap[a].st # "leaked"
  /\ (\A s \in Slots : ~Live(s)) => \A a \in Addrs : heap[a].st \in {"unalloc", "freed"}
  /\ ~(res.op = "destroy" /\ res.kind = "segv")

(***************************************************************************)
(* C25.  In every reachable state the strides of every tensor, however it  *)
(* was constructed (default, flat list, nested list, extents, zero extents *)
(* included, copy, move), are row-major: the last stride is 1 and each     *)
(* other stride is the next stride times the next extent.                  *)
(* The code does not: a default-constructed tensor has strides of 0, an    *)
(* extent of 0 makes the float quotient NaN or infinite, and the flat-list *)
(* and nested-list constructors divide by extents that do not multiply to  *)
(* the size.                                                               *)
(***************************************************************************)
C25_StridesRowMajor ==
  \A s \in Slots : Live(s) =>
    LET e == obj[s].m_extents
        st == obj[s].m_strides
        n == Len(e) IN
    /\ st[n] = 1
    /\ \A i \in 1..(n - 1) : st[i] = st[i + 1] * e[i + 1]

(***************************************************************************)
(* C26.  Copy-constructing a tensor::Tensor gives the new instance a       *)
(* buffer of its own: after any copy constructions, element writes and     *)
(* destructions no two live instances share a buffer, a write through one  *)
(* instance changes the elements of no other, and no buffer is released    *)
(* twice.                                                                  *)
(* The code does not: the copy constructor is defaulted and copies the     *)
(* pointer.                                                                *)
(***************************************************************************)
C26_TensorDeepCopy ==
  [][/\ \A s \in Slots, t \in Slots :
          (s # t /\ IsTensor(s)' /\ IsTensor(t)') => obj'[s].m_data # obj'[t].m_data
     /\ (res'.op = "Tensor_write" /\ res'.kind = "ok") =>
          \A t \in Slots \ {res'.a} : IsTensor(t) => Cells(obj[t])' = Cells(obj[t])
     /\ ~(res'.op = "Tensor_destroy" /\ res'.kind = "segv" /\ ~res'.ub)]_vars

(***************************************************************************)
(* C27.  operator[] returns an element only when the buffer is not null:   *)
(* on a moved-from tensor (null buffer, size kept) and on a default-       *)
(* constructed tensor, t[i] fails with an exception for every i and never  *)
(* goes through the null pointer.                                          *)
(* The code does not: operator[] compares idx with m_size - 1 only.        *)
(***************************************************************************)
C27_NullBufferFails ==
  (res.op \in {"index", "write"} /\ ~HasBuf(ResA)) =>
    res.kind \in {"out_of_range", "runtime_error", "domain_error"}

(***************************************************************************)
(* C28.  get reads only positions inside the buffer: whenever some index   *)
(* idxs[j] is not below extents[j], get fails with an exception; it        *)
(* returns neither the element of another multi-index (for instance        *)
(* {0, extents[1]} read as {1, 0}) nor anything from beyond the buffer.    *)
(* The code does not: get compares no index with its extent.               *)
(***************************************************************************)
C28_GetChecksIndices ==
  (res.op = "get" /\ \E j \in 1..Len(res.idxs) : res.idxs[j] >= ResA.m_extents[j]) =>
    res.kind \in {"out_of_range", "runtime_error", "domain_error"}

(***************************************************************************)
(* C29.  The strict comparisons are irreflexive and asymmetric for every   *)
(* tensor, zero-sized ones included: a > a and a < a are false, a > b and  *)
(* b > a are never both true, and for operands of equal extents a > b and  *)
(* a <= b are never both true.  The second comparison of a pair is the     *)
(* step taken, the first one the operation before it.                      *)
(* The code does not: over zero elements the loop of every comparison      *)
(* finds no failing pair and the result is true.                           *)
(***************************************************************************)
C29_StrictOrder ==
  [][(res'.op \in RelOps /\ res'.kind = "ok") =>
       /\ (res'.op \in {"gt", "lt"} /\ res'.a = res'.b) => ~res'.bval
       /\ (/\ res.op = "gt" /\ res.kind = "ok" /\ res'.op = "gt"
           /\ res'.a = res.b /\ res'.b = res.a) => ~(res.bval /\ res'.bval)
       /\ (/\ res.op = "gt" /\ res.kind = "ok" /\ res'.op = "le"
           /\ res'.a = res.a /\ res'.b = res.b
           /\ obj[res.a].m_extents = obj[res.b].m_extents) => ~(res.bval /\ res'.bval)]_vars

(***************************************************************************)
(* C30.  For every tensor built by the extents constructor with all        *)
(* extents positive, the map from a valid multi-index to the sum of        *)
(* idxs[j] * strides[j] is a bijection onto the positions 0 .. size - 1.   *)
(* For a tensor whose multi-indices can be listed this is checked as       *)
(* stated.  For a larger one what is checked is what a bijection makes of  *)
(* the corners: the strides being non-negative, the largest offset is that *)
(* of the last multi-index and equals size - 1, and the origin and the     *)
(* unit multi-indices have offsets that differ from one another.           *)
(* The code does not for large sizes: the strides are computed in float    *)
(* (see C5).                                                               *)
(***************************************************************************)
\* The valid multi-indices of extents ext.
Box(ext) == Choices([j \in 1..Len(ext) |-> 0..(ext[j] - 1)], Len(ext))
Offset(t, idxs) == FlatIdx(idxs, t.m_strides, Len(idxs))
Unit(ext, k) == [j \in 1..Len(ext) |-> IF j = k THEN 1 ELSE 0]
Corners(ext) == {Zeros(Len(ext))} \cup {Unit(ext, k) : k \in {j \in 1..Len(ext) : ext[j] > 1}}
Last(ext) == [j \in 1..Len(ext) |-> ext[j] - 1]
Bijective(t) ==
  IF t.m_size < Untracked
    THEN /\ Cardinality(Box(t.m_extents)) = t.m_size
         /\ {Offset(t, i) : i \in Box(t.m_extents)} = 0..(t.m_size - 1)
    ELSE /\ Offset(t, Last(t.m_extents)) = t.m_size - 1
         /\ \A i \in Corners(t.m_extents), k \in Corners(t.m_extents) :
              i # k => Offset(t, i) # Offset(t, k)
C30_OffsetsBijective ==
  \A s \in Slots :
    (obj[s].ctor = "extents" /\ AllPositive(obj[s].m_extents)) => Bijective(obj[s])

====
